---- MODULE Spec2Model ----
(***************************************************************************)
(* A model of src/src/matrix.rs: the generic dense matrix Matrix<T>, a     *)
(* shape (rows, cols) over a flat row-major buffer (the field `matrix`).   *)
(*                                                                         *)
(* The state is one matrix `a` owned by a caller, and `last`, the record   *)
(* of the most recent call made on it: the operation, its arguments, the   *)
(* matrix as it was before the call and the value the call returned.       *)
(*                                                                         *)
(* Elements are integers (T = an integer type, Default::default() = 0).    *)
(* Coordinates and shapes are small, so that row * cols + col never comes  *)
(* near the width of usize: arithmetic overflow of the offset is outside   *)
(* what is modelled here.                                                  *)
(***************************************************************************)
EXTENDS Integers, Sequences, FiniteSets, TLC

VARIABLES a, last

vars == <<a, last>>

(***************************************************************************)
(* Bounds of the model.                                                    *)
(***************************************************************************)
MaxDim == 2

MaxCells == 4

\* The most values a ragged nested vector handed to from_vec holds.
MaxRagged == 2

\* Default::default() of the element type.
Default == 0

Dims == 0..MaxDim

\* Coordinates passed to the accessors: in range for the largest shape, out
\* of range for the smaller ones.
Coords == 0..MaxDim

\* Element values a caller stores: the default and one other value.
Vals == {Default, Default + 1}

\* Transforms handed to apply and map.
Transforms == [Vals -> Vals]

(***************************************************************************)
(* Option<T>: None is the empty tuple, Some(x) the one-element tuple.      *)
(***************************************************************************)
None == <<>>

Some(x) == <<x>>

\* The message carried by the Err of set and apply.
OutOfBounds == "Index out of bounds"

\* Result<&mut Self, &str>: the matrix after the call, and the error if any.
Ok(m) == [ok |-> TRUE, err |-> "", m |-> m]

Err(m, msg) == [ok |-> FALSE, err |-> msg, m |-> m]

(***************************************************************************)
(* Vec<T> and slice primitives of the standard library, as the code uses   *)
(* them (0-based positions over 1-based TLA+ sequences).                   *)
(***************************************************************************)
\* Vec::get / Vec::get_mut: the element at position i, if there is one.
VecGet(vec, i) == IF i >= 0 /\ i < Len(vec) THEN Some(vec[i + 1]) ELSE None

\* vec![Default::default(); n]
Filled(n) == [i \in 1..n |-> Default]

\* v.into_iter().flatten().collect()
RECURSIVE Flatten(_)
Flatten(v) == IF Len(v) = 0 THEN <<>> ELSE Head(v) \o Flatten(Tail(v))

\* slice.chunks(n) for n > 0: n-sized pieces in order, the last one shorter
\* when the length is no multiple of n.
RECURSIVE Chunks(_, _)
Chunks(vec, n) ==
    IF Len(vec) = 0 THEN <<>>
    ELSE IF Len(vec) <= n THEN <<vec>>
    ELSE <<SubSeq(vec, 1, n)>> \o Chunks(SubSeq(vec, n + 1, Len(vec)), n)

(***************************************************************************)
(* Constructors.                                                           *)
(***************************************************************************)
new(rows, cols) == [rows |-> rows, cols |-> cols, matrix |-> <<>>]

new_empty(rows, cols) ==
    [rows |-> rows, cols |-> cols, matrix |-> Filled(rows * cols)]

\* v[0] panics on an empty outer vector: from_vec is applied to Len(v) > 0.
from_vec(v) ==
    [rows |-> Len(v), cols |-> Len(v[1]), matrix |-> Flatten(v)]

num_rows(m) == m.rows

num_cols(m) == m.cols

(***************************************************************************)
(* Indexing and element access.                                            *)
(***************************************************************************)
index_inbounds(m, row, col) ==
    IF m.rows < row THEN None
    ELSE IF m.cols < col THEN None
    ELSE Some(row * m.cols + col)

index_colmajor(m, row, col) == col * m.rows + row

index(m, row, col) == row * m.cols + col

at(m, row, col) == VecGet(m.matrix, index(m, row, col))

at_or_default(m, row, col) ==
    LET val == at(m, row, col)
    IN  IF val # None THEN val[1] ELSE Default

set_swapped(m, row, col, value) ==
    LET i == index(m, col, row)
    IN  IF i < Len(m.matrix)
        THEN Ok([m EXCEPT !.matrix[i + 1] = value])
        ELSE Err(m, OutOfBounds)

set_push(m, row, col, value) ==
    LET i == index(m, row, col)
    IN  IF i < Len(m.matrix)
        THEN Ok([m EXCEPT !.matrix[i + 1] = value])
        ELSE IF i = Len(m.matrix)
        THEN Ok([m EXCEPT !.matrix = Append(m.matrix, value)])
        ELSE Err(m, OutOfBounds)

set(m, row, col, value) ==
    LET i == index(m, row, col)
    IN  IF VecGet(m.matrix, i) # None
        THEN Ok([m EXCEPT !.matrix[i + 1] = value])
        ELSE Err(m, OutOfBounds)

apply_unmapped(m, row, col, f) ==
    LET val == at(m, row, col)
    IN  IF val # None
        THEN set(m, row, col, val[1])
        ELSE Err(m, OutOfBounds)

\* f is the transform, a function on element values.
apply(m, row, col, f) ==
    LET val == at(m, row, col)
    IN  IF val # None
        THEN set(m, row, col, f[val[1]])
        ELSE Err(m, OutOfBounds)

map_transposed(m, f) ==
    [rows |-> m.cols, cols |-> m.rows,
     matrix |-> [i \in 1..Len(m.matrix) |-> f[m.matrix[i]]]]

map(m, f) ==
    [rows |-> m.rows, cols |-> m.cols,
     matrix |-> [i \in 1..Len(m.matrix) |-> f[m.matrix[i]]]]

(***************************************************************************)
(* Row iteration.  chunks(0) panics; the record says so.                   *)
(***************************************************************************)
rows_by_rows(m) ==
    IF m.rows = 0
    THEN [panic |-> TRUE, chunks |-> <<>>]
    ELSE [panic |-> FALSE, chunks |-> Chunks(m.matrix, m.rows)]

rows(m) ==
    IF m.cols = 0
    THEN [panic |-> TRUE, chunks |-> <<>>]
    ELSE [panic |-> FALSE, chunks |-> Chunks(m.matrix, m.cols)]

\* rows().nth(i)
get_row(m, i) ==
    LET r == rows(m)
    IN  IF r.panic THEN [panic |-> TRUE, row |-> None]
        ELSE [panic |-> FALSE, row |-> VecGet(r.chunks, i)]

(***************************************************************************)
(* Arithmetic extension.                                                   *)
(***************************************************************************)
add(m, value) == map(m, [x \in Int |-> x + value])

subtract(m, value) == map(m, [x \in Int |-> x - value])

multiply(m, value) == map(m, [x \in Int |-> x * value])

Min(x, y) == IF x <= y THEN x ELSE y

\* The for_each of matrix_add from position i on: z = x + y is stored at
\* position i of the result only if the result has a position i.
RECURSIVE AddLoop(_, _, _, _)
AddLoop(result, self, m, i) ==
    IF i >= Min(Len(self.matrix), Len(m.matrix)) THEN result
    ELSE LET z == self.matrix[i + 1] + m.matrix[i + 1]
             next == IF VecGet(result.matrix, i) # None
                     THEN [result EXCEPT !.matrix[i + 1] = z]
                     ELSE result
         IN  AddLoop(next, self, m, i + 1)

matrix_add_bothdiffer(self, m) ==
    IF self.rows # m.rows /\ self.cols # m.cols THEN None
    ELSE Some(AddLoop(new(self.rows, self.cols), self, m, 0))

matrix_add(self, m) ==
    IF self.rows # m.rows \/ self.cols # m.cols THEN None
    ELSE Some(AddLoop(new(self.rows, self.cols), self, m, 0))

\* The triple loop of matrix_multiply from its t-th iteration on, t counting
\* the iterations in order: i outermost, then j, then k innermost.
RECURSIVE MulLoop(_, _, _, _)
MulLoop(result, self, m, t) ==
    LET C == num_cols(self)
        K == num_rows(m)
    IN  IF t >= num_rows(self) * C * K THEN result
        ELSE LET i == t \div (C * K)
                 j == (t \div K) % C
                 k == t % K
                 prod == at_or_default(self, i, k) * at_or_default(m, k, j)
                 r == apply(result, i, j, [x \in Int |-> x + prod])
             IN  IF r.ok \/ ~r.ok THEN MulLoop(r.m, self, m, t + 1)
                 ELSE result

matrix_multiply(self, m) ==
    IF self.rows # m.rows \/ self.cols # m.cols THEN None
    ELSE Some(MulLoop(new(self.rows, num_cols(m)), self, m, 0))

(***************************************************************************)
(* Inputs.                                                                 *)
(***************************************************************************)
\* Rows of 0..MaxDim values.
RowInputs == UNION {[1..n -> Vals] : n \in Dims}

\* Whether every row of v is as long as the first.
EqualRows(v) == \A i \in 1..Len(v) : Len(v[i]) = Len(v[1])

\* Nested vectors handed to from_vec: up to MaxDim rows; those with rows of
\* equal length hold at most MaxCells values, the ragged ones at most
\* MaxRagged; the empty outer vector is among them.
VecInputs ==
    {v \in UNION {[1..n -> RowInputs] : n \in Dims} :
        Len(Flatten(v)) <= (IF EqualRows(v) THEN MaxCells ELSE MaxRagged)}

\* Shapes of the filled constructor that fit MaxCells.
FilledShapes == {rc \in Dims \X Dims : rc[1] * rc[2] <= MaxCells}

\* Matrices a caller hands over as the other operand: unfilled, filled, or
\* built from rows of equal length.
Operands ==
    {new(r, c) : r \in Dims, c \in Dims}
    \cup {new_empty(rc[1], rc[2]) : rc \in FilledShapes}
    \cup {from_vec(v) : v \in {w \in VecInputs : Len(w) > 0 /\ EqualRows(w)}}

\* Whether the buffer holds exactly rows * cols elements.
Full(m) == Len(m.matrix) = m.rows * m.cols

\* The record of a call; the fields a call does not use keep these values.
NoCall ==
    [op |-> "none", self |-> new(0, 0), other |-> new(0, 0), row |-> 0,
     col |-> 0, val |-> 0, f |-> <<>>, panic |-> FALSE, ret |-> None]

Call(op, self) == [NoCall EXCEPT !.op = op, !.self = self]

(***************************************************************************)
(* The state after construction: a default-filled matrix, no call yet.     *)
(***************************************************************************)
Init ==
    /\ \E rc \in FilledShapes : a = new_empty(rc[1], rc[2])
    /\ last = NoCall

(***************************************************************************)
(* One action per operation of the API.                                    *)
(***************************************************************************)
New ==
    \E r \in Dims, c \in Dims :
        /\ a' = new(r, c)
        /\ last' = [Call("new", NoCall.self) EXCEPT !.row = r, !.col = c]

NewEmpty ==
    \E rc \in FilledShapes :
        /\ a' = new_empty(rc[1], rc[2])
        /\ last' = [Call("new_empty", NoCall.self) EXCEPT
                        !.row = rc[1], !.col = rc[2]]

FromVec ==
    \E v \in VecInputs :
        IF Len(v) = 0
        THEN /\ a' = a
             /\ last' = [Call("from_vec", NoCall.self) EXCEPT !.panic = TRUE]
        ELSE /\ a' = from_vec(v)
             /\ last' = Call("from_vec", NoCall.self)

IndexInbounds ==
    \E row \in Coords, col \in Coords :
        /\ a' = a
        /\ last' = [Call("index_inbounds", a) EXCEPT
                        !.row = row, !.col = col,
                        !.ret = index_inbounds(a, row, col)]

At ==
    \E row \in Coords, col \in Coords :
        /\ a' = a
        /\ last' = [Call("at", a) EXCEPT
                        !.row = row, !.col = col, !.ret = at(a, row, col)]

Set ==
    \E row \in Coords, col \in Coords, value \in Vals :
        LET r == set(a, row, col, value)
        IN  /\ a' = r.m
            /\ last' = [Call("set", a) EXCEPT
                            !.row = row, !.col = col, !.val = value,
                            !.ret = [ok |-> r.ok, err |-> r.err]]

Apply ==
    \E row \in Coords, col \in Coords, f \in Transforms :
        LET r == apply(a, row, col, f)
        IN  /\ a' = r.m
            /\ last' = [Call("apply", a) EXCEPT
                            !.row = row, !.col = col, !.f = f,
                            !.ret = [ok |-> r.ok, err |-> r.err]]

Map ==
    \E f \in Transforms :
        /\ a' = a
        /\ last' = [Call("map", a) EXCEPT !.f = f, !.ret = map(a, f)]

Rows ==
    LET r == rows(a)
    IN  /\ a' = a
        /\ last' = [Call("rows", a) EXCEPT
                        !.panic = r.panic, !.ret = r.chunks]

GetRow ==
    \E i \in Coords :
        LET r == get_row(a, i)
        IN  /\ a' = a
            /\ last' = [Call("get_row", a) EXCEPT
                            !.row = i, !.panic = r.panic, !.ret = r.row]

Add ==
    \E value \in Vals :
        /\ a' = a
        /\ last' = [Call("add", a) EXCEPT
                        !.val = value, !.ret = add(a, value)]

Subtract ==
    \E value \in Vals :
        /\ a' = a
        /\ last' = [Call("subtract", a) EXCEPT
                        !.val = value, !.ret = subtract(a, value)]

Multiply ==
    \E value \in Vals :
        /\ a' = a
        /\ last' = [Call("multiply", a) EXCEPT
                        !.val = value, !.ret = multiply(a, value)]

MatrixAdd ==
    \E m \in Operands :
        /\ a' = a
        /\ last' = [Call("matrix_add", a) EXCEPT
                        !.other = m, !.ret = matrix_add(a, m)]

MatrixMultiply ==
    \E m \in Operands :
        /\ a' = a
        /\ last' = [Call("matrix_multiply", a) EXCEPT
                        !.other = m, !.ret = matrix_multiply(a, m)]

Next ==
    \/ New
    \/ NewEmpty
    \/ FromVec
    \/ IndexInbounds
    \/ At
    \/ Set
    \/ Apply
    \/ Map
    \/ Rows
    \/ GetRow
    \/ Add
    \/ Subtract
    \/ Multiply
    \/ MatrixAdd
    \/ MatrixMultiply

Spec == Init /\ [][Next]_vars

(***************************************************************************)
(* The claims.  In each, `self` is the matrix before the recorded call and *)
(* `a` the matrix after it.                                                *)
(***************************************************************************)
\* Whether coordinate (row, col) lies inside the shape of m.
InShape(m, row, col) == row < m.rows /\ col < m.cols

\* Whether two matrices have the same shape.
SameShape(m, n) == m.rows = n.rows /\ m.cols = n.cols

\* The element of a full matrix at logical coordinate (row, col), read off
\* the row-major layout.
Cell(m, row, col) == m.matrix[row * m.cols + col + 1]

\* C1: on a matrix whose buffer holds rows * cols elements, set(row, col, v)
\* at a coordinate inside the shape succeeds, and an at(row, col) made right
\* after it returns v.
C1_RoundTrip ==
    (last.op = "set" /\ Full(last.self)
        /\ InShape(last.self, last.row, last.col))
    => /\ last.ret.ok
       /\ at(a, last.row, last.col) = Some(last.val)

\* C1 happens: a set inside a full 2 x 2 matrix that changes the cell.
C1_Witness ==
    /\ last.op = "set"
    /\ Full(last.self)
    /\ last.self.rows = 2 /\ last.self.cols = 2
    /\ last.row = 1 /\ last.col = 1
    /\ last.ret.ok
    /\ Cell(last.self, 1, 1) # last.val
    /\ at(a, 1, 1) = Some(last.val)

\* C2: for operands of the same shape, each holding rows * cols elements,
\* matrix_add returns a matrix of that shape holding rows * cols elements
\* whose cell (row, col) is self[row, col] + other[row, col].
C2_ElementwiseSum ==
    (last.op = "matrix_add" /\ SameShape(last.self, last.other)
        /\ Full(last.self) /\ Full(last.other))
    => /\ last.ret # None
       /\ LET r == last.ret[1]
          IN  /\ SameShape(r, last.self)
              /\ Len(r.matrix) = last.self.rows * last.self.cols
              /\ \A row \in 0..(last.self.rows - 1) :
                    \A col \in 0..(last.self.cols - 1) :
                        at(r, row, col)
                            = Some(Cell(last.self, row, col)
                                    + Cell(last.other, row, col))

\* C3: matrix_add and matrix_multiply return None exactly when the shapes of
\* the operands differ, and the call leaves the matrix as it was.
C3_ShapeMismatch ==
    (last.op \in {"matrix_add", "matrix_multiply"})
    => /\ (last.ret = None) <=> ~SameShape(last.self, last.other)
       /\ a = last.self

\* C3 happens: an addition of a 2-row and a 1-row matrix of equal width is
\* refused.
C3_Witness ==
    /\ last.op = "matrix_add"
    /\ last.self.rows = 2 /\ last.other.rows = 1
    /\ last.self.cols = 2 /\ last.other.cols = 2
    /\ Full(last.self) /\ Full(last.other)
    /\ last.ret = None
    /\ a = last.self

\* The sum over k in [0, n) of self[i, k] * other[k, j], read with
\* at_or_default.
RECURSIVE DotSum(_, _, _, _, _)
DotSum(self, other, i, j, n) ==
    IF n = 0 THEN Default
    ELSE DotSum(self, other, i, j, n - 1)
            + at_or_default(self, i, n - 1) * at_or_default(other, n - 1, j)

\* C4: for operands of the same shape (here: each holding rows * cols
\* elements), matrix_multiply returns a matrix of self.rows * other.cols
\* elements whose cell (i, j) is the sum over k in [0, other.rows) of
\* self[i, k] * other[k, j].
C4_MultiplyAccumulates ==
    (last.op = "matrix_multiply" /\ SameShape(last.self, last.other)
        /\ Full(last.self) /\ Full(last.other))
    => /\ last.ret # None
       /\ LET r == last.ret[1]
          IN  /\ r.rows = last.self.rows
              /\ r.cols = last.other.cols
              /\ Len(r.matrix) = last.self.rows * last.other.cols
              /\ \A i \in 0..(last.self.rows - 1) :
                    \A j \in 0..(last.self.cols - 1) :
                        at(r, i, j)
                            = Some(DotSum(last.self, last.other, i, j,
                                          last.other.rows))

\* C5: set and apply at a coordinate whose offset row * cols + col is not
\* below the length of the buffer return the error "Index out of bounds" and
\* leave rows, cols and the buffer as they were.
C5_OutOfBoundsWrite ==
    (last.op \in {"set", "apply"}
        /\ last.row * last.self.cols + last.col >= Len(last.self.matrix))
    => /\ ~last.ret.ok
       /\ last.ret.err = "Index out of bounds"
       /\ a = last.self

\* C5 happens: a set inside the declared shape of a matrix made by
\* new(2, 2), whose buffer is empty.
C5_Witness ==
    /\ last.op = "set"
    /\ last.self = new(2, 2)
    /\ InShape(last.self, last.row, last.col)
    /\ last.ret.err = "Index out of bounds"
    /\ a = new(2, 2)

\* The i-th (from 0) cols-sized slice of the buffer of m.
RowSlice(m, i) == SubSeq(m.matrix, i * m.cols + 1, (i + 1) * m.cols)

\* C6 as claimed: for every matrix, the unfilled and the zero-width ones
\* included, rows() yields, on each call, exactly `rows` slices of length
\* cols, and get_row(i) the i-th of them for i < rows and nothing otherwise.
C6_RowsEveryMatrix ==
    /\ (last.op = "rows")
        => /\ ~last.panic
           /\ rows(a) = [panic |-> FALSE, chunks |-> last.ret]
           /\ Len(last.ret) = last.self.rows
           /\ \A i \in 1..Len(last.ret) :
                last.ret[i] = RowSlice(last.self, i - 1)
    /\ (last.op = "get_row")
        => /\ ~last.panic
           /\ last.row < last.self.rows
                => last.ret = Some(RowSlice(last.self, last.row))
           /\ last.row >= last.self.rows => last.ret = None

\* C6 (amended): on a matrix of cols >= 1 whose buffer holds rows * cols
\* elements, rows() yields on each call exactly `rows` slices, the i-th being
\* the i-th cols-sized piece of the buffer, and get_row(i) returns the i-th
\* for i < rows and nothing for i >= rows; with cols = 0 both calls panic, and
\* on an empty buffer with cols >= 1 rows() yields no slice and get_row nothing.
C6_RowsFullMatrix ==
    /\ (last.op \in {"rows", "get_row"})
        => /\ last.panic <=> (last.self.cols = 0)
           /\ a = last.self
    /\ (last.op = "rows" /\ last.self.cols >= 1)
        => /\ rows(a) = [panic |-> FALSE, chunks |-> last.ret]
           /\ Full(last.self)
                => /\ Len(last.ret) = last.self.rows
                   /\ \A i \in 1..Len(last.ret) :
                        /\ Len(last.ret[i]) = last.self.cols
                        /\ last.ret[i] = RowSlice(last.self, i - 1)
           /\ last.self.matrix = <<>> => last.ret = <<>>
    /\ (last.op = "get_row" /\ last.self.cols >= 1)
        => /\ (Full(last.self) /\ last.row < last.self.rows)
                => last.ret = Some(RowSlice(last.self, last.row))
           /\ (Full(last.self) /\ last.row >= last.self.rows)
                => last.ret = None
           /\ last.self.matrix = <<>> => last.ret = None

\* C6 happens: rows() on a full 2 x 2 matrix yields its two rows.
C6_Witness ==
    /\ last.op = "rows"
    /\ Full(last.self)
    /\ last.self.rows = 2 /\ last.self.cols = 2
    /\ ~last.panic
    /\ Len(last.ret) = 2
    /\ last.ret[1] # last.ret[2]

\* Whether r is m with g applied to every element of the buffer, in order.
Mapped(r, m, g) ==
    /\ SameShape(r, m)
    /\ Len(r.matrix) = Len(m.matrix)
    /\ \A i \in 1..Len(m.matrix) : r.matrix[i] = g[m.matrix[i]]

\* C7: map(f) returns a matrix of the same rows and cols whose buffer has the
\* same length and holds f of each element in buffer order, and leaves the
\* matrix as it was; so do the scalar add, subtract and multiply.
C7_MapShape ==
    /\ (last.op \in {"map", "add", "subtract", "multiply"}) => a = last.self
    /\ (last.op = "map") => Mapped(last.ret, last.self, last.f)
    /\ (last.op = "add")
        => Mapped(last.ret, last.self, [x \in Vals |-> x + last.val])
    /\ (last.op = "subtract")
        => Mapped(last.ret, last.self, [x \in Vals |-> x - last.val])
    /\ (last.op = "multiply")
        => Mapped(last.ret, last.self, [x \in Vals |-> x * last.val])

\* C7 happens: a map over a full 1 x 2 matrix that changes an element.
C7_Witness ==
    /\ last.op = "map"
    /\ last.self.rows = 1 /\ last.self.cols = 2
    /\ Full(last.self)
    /\ last.ret.rows = 1 /\ last.ret.cols = 2
    /\ last.ret.matrix # last.self.matrix

\* The matrices whose buffer holds rows * cols elements: the matrix at hand,
\* if it is one, and those the constructors build.
FullMatrices == {m \in Operands \cup {a} : Full(m)}

\* C8 as claimed: some matrix whose buffer holds rows * cols elements has a
\* coordinate with row >= rows and col < cols at which at returns a cell.
C8_AliasThroughRow ==
    \E m \in FullMatrices :
        \E row \in 0..(MaxCells + MaxDim), col \in Coords :
            /\ row >= m.rows
            /\ col < m.cols
            /\ at(m, row, col) # None

\* C8 (amended): on a matrix whose buffer holds rows * cols elements, at
\* returns nothing at every coordinate with row >= rows and col < cols; it
\* returns a cell at a coordinate outside the shape only when row < rows and
\* col >= cols, and then the cell of (row + col div cols, col mod cols).
C8_AliasThroughCol ==
    (last.op = "at" /\ Full(last.self))
    => /\ (last.row >= last.self.rows /\ last.col < last.self.cols)
            => last.ret = None
       /\ (last.ret # None /\ ~InShape(last.self, last.row, last.col))
            => /\ last.row < last.self.rows
               /\ last.col >= last.self.cols
               /\ InShape(last.self,
                          last.row + (last.col \div last.self.cols),
                          last.col % last.self.cols)
               /\ last.ret = Some(Cell(last.self,
                                    last.row + (last.col \div last.self.cols),
                                    last.col % last.self.cols))

\* C8 happens: at(0, 2) on a full 2 x 2 matrix returns the cell of (1, 0),
\* which differs from that of (0, 0).
C8_Witness ==
    /\ last.op = "at"
    /\ Full(last.self)
    /\ last.self.rows = 2 /\ last.self.cols = 2
    /\ last.row = 0 /\ last.col = 2
    /\ last.ret = Some(Cell(last.self, 1, 0))
    /\ Cell(last.self, 1, 0) # Cell(last.self, 0, 0)

\* C9: index_inbounds returns Some(row * cols + col) exactly when row < rows
\* and col < cols, so every position it returns is below rows * cols.
C9_BoundsCheck ==
    (last.op = "index_inbounds")
    => /\ (last.ret # None) <=> InShape(last.self, last.row, last.col)
       /\ (last.ret # None)
            => /\ last.ret = Some(last.row * last.self.cols + last.col)
               /\ last.ret[1] < last.self.rows * last.self.cols

\* C10: on a matrix whose buffer holds rows * cols elements, set and apply
\* keep rows, cols and the buffer length, and a call at a coordinate inside
\* the shape succeeds and changes the element of that coordinate alone: to v
\* (set), to f of its previous value (apply).
C10_WriteFrame ==
    (last.op \in {"set", "apply"} /\ Full(last.self))
    => /\ SameShape(a, last.self)
       /\ Len(a.matrix) = Len(last.self.matrix)
       /\ Full(a)
       /\ InShape(last.self, last.row, last.col)
            => /\ last.ret.ok
               /\ \A r \in 0..(last.self.rows - 1) :
                    \A c \in 0..(last.self.cols - 1) :
                        Cell(a, r, c) =
                            IF r = last.row /\ c = last.col
                            THEN IF last.op = "set" THEN last.val
                                 ELSE last.f[Cell(last.self, r, c)]
                            ELSE Cell(last.self, r, c)

\* C10 happens: an apply inside a full 2 x 2 matrix that changes its cell.
C10_Witness ==
    /\ last.op = "apply"
    /\ Full(last.self)
    /\ last.self.rows = 2 /\ last.self.cols = 2
    /\ last.row = 1 /\ last.col = 0
    /\ last.ret.ok
    /\ Cell(a, 1, 0) # Cell(last.self, 1, 0)
    /\ Cell(a, 1, 0) = last.f[Cell(last.self, 1, 0)]

====
